---- MODULE Spec2Model ----
(***************************************************************************)
(* Model of the Wikipedia clone's client-side code:                        *)
(*   js/parts-loader.js  PartsLoader (loadPart, loadParts,                 *)
(*                       loadStandardLayout, initSearchFunction)           *)
(*   js/app.js           WikiArticleRenderer (loadArticle, renderArticle   *)
(*                       and the render* helpers, showError)               *)
(*                                                                         *)
(* Markup is a sequence of chunks (strings): a template literal            *)
(* `<h1>${x}</h1>` is the sequence <<"<h1>", x, "</h1>">>, and `html += s`  *)
(* is \o.  An element's contents (its innerHTML) is such a sequence, in     *)
(* which a child element appears as the chunk holding its name.            *)
(***************************************************************************)
EXTENDS Integers, Sequences, FiniteSets, TLC

VARIABLES
    doc,        \* element name -> its contents (sequence of chunks)
    doc0,       \* the document as it was when the page was loaded
    call,       \* which entry point of PartsLoader the page calls
    parts,      \* the specs handed to loadParts
    partPc,     \* per spec: where its loadPart call stands
    loaderPc,   \* where loadParts / loadStandardLayout stands
    initCalls,  \* how many times initSearchFunction has run
    listeners,  \* keypress listeners registered on #search-input
    errLog,     \* per spec: what its catch block handed to console.error
    wrote,      \* per spec: the elements whose contents its splice changed
    articleData, \* the record the article's JSON decodes to
    artPc,      \* where loadArticle stands
    title,      \* document.title
    container,  \* WikiArticleRenderer.articleContainer
    artLog      \* what the catch block of loadArticle handed to console.error

loaderVars ==
    <<call, parts, partPc, loaderPc, initCalls, listeners, errLog, wrote>>

artVars == <<articleData, artPc, title, container, artLog>>

vars == <<doc, doc0, loaderVars, artVars>>

(***************************************************************************)
(* Bounds                                                                  *)
(***************************************************************************)
MaxParts == 2

MaxSections == 2

MaxTocLen == 2

MaxChildren == 2

MaxCats == 2

(***************************************************************************)
(* The document                                                            *)
(***************************************************************************)
Root == "html"

GenericElems == {"html", "a", "b", "c"}

LayoutElems == {"header-placeholder", "sidebar-placeholder",
                "article-tabs-placeholder", "footer-placeholder"}

Elems == GenericElems \cup LayoutElems \cup {"article-content", "search-input"}

Range(s) == {s[i] : i \in DOMAIN s}

\* A page whose root holds a and b, a holds c, b holds some text.
GenericDoc ==
    [e \in Elems |->
        CASE e = "html" -> <<"a", "b">>
          [] e = "a"    -> <<"c">>
          [] e = "b"    -> <<"b-text">>
          [] OTHER      -> <<>>]

\* The element a selector names ("#id" is modelled by the id itself).
RECURSIVE AttachedN(_, _, _)
AttachedN(d, e, n) ==
    \/ e = Root
    \/ /\ n > 0
       /\ \E p \in Elems : e \in Range(d[p]) /\ AttachedN(d, p, n - 1)

Attached(d, e) == e \in Elems /\ AttachedN(d, e, Cardinality(Elems))

\* document.querySelector: the element, or "null" when none matches.
querySelector(d, selector) ==
    IF Attached(d, selector) THEN selector ELSE "null"

\* The parent element of e, "null" when e is the root (whose parent is
\* the Document) or is detached.
ParentOf(d, e) ==
    IF \E p \in Elems : e \in Range(d[p])
    THEN CHOOSE p \in Elems : e \in Range(d[p])
    ELSE "null"

IndexOf(s, x) == CHOOSE i \in DOMAIN s : s[i] = x

(***************************************************************************)
(* Fetched fragments                                                       *)
(***************************************************************************)
\* The body served for a path: its top-level nodes, in order.
ResponseText(path) ==
    CASE path = "parts/header.html"       -> <<"header-logo", "search-input">>
      [] path = "parts/sidebar.html"      -> <<"sidebar-nav">>
      [] path = "parts/article-tabs.html" -> <<"tabs">>
      [] path = "parts/footer.html"       -> <<"footer-1", "footer-2">>
      [] path = "p1"                      -> <<"p1-x">>
      [] path = "p2"                      -> <<"p2-x", "p2-y">>
      [] path = "p3"                      -> <<"p3-x">>
      [] OTHER                            -> <<>>

Positions == {"replace", "append", "prepend", "before", "after"}

\* insertAdjacentHTML('beforebegin' | 'afterend') needs a parent element.
InsertThrows(d, target, position) ==
    position \in {"before", "after"} /\ ParentOf(d, target) = "null"

\* Splice with 'before' / 'after' taken for 'afterbegin' / 'beforeend':
\* the text lands inside the target.
SpliceInside(d, target, position, html) ==
    CASE position \in {"append", "after"}   -> [d EXCEPT ![target] = @ \o html]
      [] position \in {"prepend", "before"} -> [d EXCEPT ![target] = html \o @]
      [] OTHER                              -> [d EXCEPT ![target] = html]

\* The switch of loadPart: the document after the splice.
Splice(d, target, position, html) ==
    CASE position = "append"  -> [d EXCEPT ![target] = @ \o html]
      [] position = "prepend" -> [d EXCEPT ![target] = html \o @]
      [] position = "before"  ->
            LET p == ParentOf(d, target)
                i == IndexOf(d[p], target)
            IN  [d EXCEPT ![p] = SubSeq(@, 1, i - 1) \o html
                                   \o SubSeq(@, i, Len(@))]
      [] position = "after"   ->
            LET p == ParentOf(d, target)
                i == IndexOf(d[p], target)
            IN  [d EXCEPT ![p] = SubSeq(@, 1, i) \o html
                                   \o SubSeq(@, i + 1, Len(@))]
      [] OTHER                -> [d EXCEPT ![target] = html]

\* part.position || 'replace'
PositionOf(part) == IF part.position = "" THEN "replace" ELSE part.position

\* What the try block of loadPart does once the body text is there.
ApplyOutcome(d, part) ==
    LET target == querySelector(d, part.selector) IN
    IF target = "null" THEN "skipped"
    ELSE IF InsertThrows(d, target, PositionOf(part)) THEN "thrown"
    ELSE "applied"

\* ApplyDoc with the target looked up once, for the first spec of the
\* list, and shared by every load.
ApplyDocSharedTarget(d, part) ==
    IF ApplyOutcome(d, part) = "applied"
    THEN Splice(d, querySelector(d, parts[1].selector), "replace",
                ResponseText(part.path))
    ELSE d

ApplyDoc(d, part) ==
    LET target == querySelector(d, part.selector) IN
    IF ApplyOutcome(d, part) = "applied"
    THEN Splice(d, target, PositionOf(part), ResponseText(part.path))
    ELSE d

\* loadPart without its try/catch: what is thrown rejects its promise.
CatchNothing(outcome) == IF outcome = "thrown" THEN "rejected" ELSE outcome

\* The catch block of loadPart: whatever was thrown, the call resolves.
Catch(outcome) == IF outcome = "thrown" THEN "failed" ELSE outcome

Finished == {"applied", "skipped", "failed", "rejected"}

(***************************************************************************)
(* Article records                                                         *)
(* An optional field is a sequence: <<>> when the field is absent          *)
(* (JavaScript's undefined), <<v>> when it is there with value v.          *)
(***************************************************************************)
Has(f) == f # <<>>

Val(f) == f[1]

Some(v) == <<v>>

None == <<>>

\* `${x}` for a text field: an absent one prints as "undefined".
Interp(f) == IF Has(f) THEN Val(f) ELSE "undefined"

\* if (x) for a text field: absent and "" are both falsy.
TruthyText(f) == Has(f) /\ Val(f) # ""

\* if (x) for an object or array field: falsy only when absent.
TruthyObj(f) == Has(f)

\* x || dflt for a text field.
OrElse(f, dflt) == IF TruthyText(f) THEN Val(f) ELSE dflt

\* A loop written for (const x of xs || []).
IterTolerates(f) == FALSE

\* for (const x of xs) throws a TypeError when xs is undefined.
IterThrows(f) == ~Has(f)

\* The elements a for-of loop visits.
Items(f) == IF Has(f) THEN Val(f) ELSE <<>>

RECURSIVE Concat(_)
Concat(ss) == IF ss = <<>> THEN <<>> ELSE Head(ss) \o Concat(Tail(ss))

(***************************************************************************)
(* WikiArticleRenderer: the render* helpers                                *)
(***************************************************************************)
renderNotice(notice) ==
    << "<div class='article-notice ", OrElse(notice.type, "info"),
       "'><span class='notice-icon'>", OrElse(notice.icon, "(i)"),
       "</span><div class='notice-content'><b>", notice.title, "</b> ",
       notice.text, "</div></div>" >>

\* renderTocChild descending into the child's own children.
renderTocChildDeep(child) ==
    << "<li><a href='#", child.id, "'><span class='toc-number'>",
       child.number, "</span> ", child.title, "</a>" >>
    \o (IF TruthyObj(child.children) /\ Len(Val(child.children)) > 0
        THEN <<"<ul>">>
             \o Concat([i \in DOMAIN Val(child.children) |->
                           << "<li><a href='#", Val(child.children)[i].id,
                              "'><span class='toc-number'>",
                              Val(child.children)[i].number, "</span> ",
                              Val(child.children)[i].title, "</a></li>" >>])
             \o <<"</ul>">>
        ELSE <<>>)
    \o <<"</li>">>

renderTocChild(child) ==
    << "<li><a href='#", child.id, "'><span class='toc-number'>",
       child.number, "</span> ", child.title, "</a></li>" >>

renderTocItem(item) ==
    << "<li><a href='#", item.id, "'><span class='toc-number'>",
       item.number, "</span> ", item.title, "</a>" >>
    \o (IF TruthyObj(item.children) /\ Len(Val(item.children)) > 0
        THEN <<"<ul>">>
             \o Concat([i \in DOMAIN Val(item.children) |->
                           renderTocChild(Val(item.children)[i])])
             \o <<"</ul>">>
        ELSE <<>>)
    \o <<"</li>">>

renderToc(tocItems) ==
    << "<div class='toc'><div class='toc-title'>...</div><ul id='toc-list'>" >>
    \o Concat([i \in DOMAIN Items(tocItems) |->
                  renderTocItem(Items(tocItems)[i])])
    \o <<"</ul></div>">>

renderInfoboxThrows(infobox) == IterThrows(infobox.rows)

renderInfobox(infobox) ==
    << "<div class='infobox'><table><tr class='infobox-header'><th>",
       infobox.title, "</th></tr>" >>
    \o (IF TruthyText(infobox.image) \/ TruthyText(infobox.imageCaption)
        THEN << "<tr><td class='infobox-image'><svg/><p class='image-caption'>",
                OrElse(infobox.imageCaption, ""), "</p></td></tr>" >>
        ELSE <<>>)
    \o Concat([i \in DOMAIN Items(infobox.rows) |->
                  << "<tr><th>", Items(infobox.rows)[i].label, "</th><td>",
                     Items(infobox.rows)[i].value, "</td></tr>" >>])
    \o <<"</table></div>">>

renderTable(table) ==
    <<"<table class='wikitable'>">>
    \o (IF TruthyText(table.caption)
        THEN <<"<caption>", Val(table.caption), "</caption>">> ELSE <<>>)
    \o <<"<tr>">>
    \o Concat([i \in DOMAIN table.headers |->
                  <<"<th>", table.headers[i], "</th>">>])
    \o <<"</tr>">>
    \o Concat([r \in DOMAIN table.rows |->
                  <<"<tr>">>
                  \o Concat([c \in DOMAIN table.rows[r] |->
                                <<"<td>", table.rows[r][c], "</td>">>])
                  \o <<"</tr>">>])
    \o <<"</table>">>

renderColumns(columns) ==
    <<"<div class='columns'>">>
    \o Concat([i \in DOMAIN columns |->
                  <<"<div class='column'><h4>", columns[i].title, "</h4><ul>">>
                  \o Concat([k \in DOMAIN columns[i].items |->
                                <<"<li>", columns[i].items[k], "</li>">>])
                  \o <<"</ul></div>">>])
    \o <<"</div>">>

\* The test without its second half: typeof x === 'object'.
IsObject(link) == link.kind = "object"

\* typeof x === 'object' && x.url
IsLinked(link) == link.kind = "object" /\ TruthyText(link.url)

\* `${x}` for a category or related link: an object prints as below.
InterpLink(link) == IF link.kind = "object" THEN "[object Object]" ELSE link.str

renderLink(link) ==
    IF IsLinked(link)
    THEN << "<li><a href='", Interp(link.url), "' target='_blank'>",
            Interp(link.title), "</a></li>" >>
    ELSE << "<li><a href='#'>", InterpLink(link), "</a></li>" >>

renderRelatedLinks(links) ==
    <<"<div class='related-links'><ul>">>
    \o Concat([i \in DOMAIN links |-> renderLink(links[i])])
    \o <<"</ul></div>">>

renderReferences(refs) ==
    <<"<div class='references'><ol>">>
    \o Concat([i \in DOMAIN refs |->
                  << "<li id='ref", ToString(i), "'>^ <a href='#'>",
                     refs[i], "</a></li>" >>])
    \o <<"</ol></div>">>

renderExternalLinks(links) ==
    <<"<ul>">>
    \o Concat([i \in DOMAIN links |->
                  << "<li><a href='", links[i].url, "' class='external'>",
                     links[i].title, "</a></li>" >>])
    \o <<"</ul>">>

renderCategories(categories) ==
    <<"<div class='categories'><span class='categories-title'>...</span><ul>">>
    \o Concat([i \in DOMAIN Items(categories) |->
                  renderLink(Items(categories)[i])])
    \o <<"</ul></div>">>

renderSection(section) ==
    << "<section id='", section.id, "'>",
       "<h2><span class='section-edit'>...</span>", section.title, "</h2>" >>
    \o (IF TruthyText(section.content) THEN <<Val(section.content)>> ELSE <<>>)
    \o (IF TruthyObj(section.subsections)
        THEN Concat([i \in DOMAIN Val(section.subsections) |->
                 << "<h3 id='", Val(section.subsections)[i].id, "'>",
                    Val(section.subsections)[i].title, "</h3>",
                    Val(section.subsections)[i].content >>])
        ELSE <<>>)
    \o (IF TruthyObj(section.table)
        THEN renderTable(Val(section.table)) ELSE <<>>)
    \o (IF TruthyObj(section.columns)
        THEN renderColumns(Val(section.columns)) ELSE <<>>)
    \o (IF TruthyObj(section.relatedLinks)
        THEN renderRelatedLinks(Val(section.relatedLinks)) ELSE <<>>)
    \o (IF TruthyObj(section.references)
        THEN renderReferences(Val(section.references)) ELSE <<>>)
    \o (IF TruthyObj(section.externalLinks)
        THEN renderExternalLinks(Val(section.externalLinks)) ELSE <<>>)
    \o <<"</section>">>

\* Whether renderArticle throws before it reaches the assignment of line 70.
renderArticleThrows(data) ==
    \/ IterThrows(data.toc)
    \/ TruthyObj(data.infobox) /\ renderInfoboxThrows(Val(data.infobox))
    \/ IterThrows(data.sections)
    \/ IterThrows(data.categories)

\* The pieces renderArticle appends to html, in the order of its body.
noticeBlock(data) ==
    IF TruthyObj(data.notice) THEN renderNotice(Val(data.notice)) ELSE <<>>

titleBlock(data) ==
    <<"<h1 class='article-title'>", Interp(data.title), "</h1>">>

introBlock(data) ==
    <<"<div class='article-intro'><p>", Interp(data.intro), "</p></div>">>

infoboxBlock(data) ==
    IF TruthyObj(data.infobox) THEN renderInfobox(Val(data.infobox)) ELSE <<>>

\* The sections appended in reverse.
sectionBlocksReversed(data) ==
    Concat([i \in DOMAIN Items(data.sections) |->
               renderSection(Items(data.sections)[
                   Len(Items(data.sections)) + 1 - i])])

sectionBlocks(data) ==
    Concat([i \in DOMAIN Items(data.sections) |->
               renderSection(Items(data.sections)[i])])

\* The line appended without the test of line 66.
lastModifiedAlways(data) ==
    <<"<div class='last-modified'>", Interp(data.lastModified), "</div>">>

lastModifiedBlock(data) ==
    IF TruthyText(data.lastModified)
    THEN <<"<div class='last-modified'>", Val(data.lastModified), "</div>">>
    ELSE <<>>

\* The markup renderArticle has built when it reaches line 70.
renderArticle(data) ==
    noticeBlock(data)
    \o titleBlock(data)
    \o introBlock(data)
    \o renderToc(data.toc)
    \o infoboxBlock(data)
    \o sectionBlocks(data)
    \o renderCategories(data.categories)
    \o lastModifiedBlock(data)

showErrorMarkup(message) ==
    << "<div class='notice-box warning'><p><strong>Error:</strong> ",
       message, "</p><p>article not found</p></div>" >>

SiteName == "Wikipedia-clone"

\* document.title = `${articleData.title} - <site>`
PageTitle(data) == <<Interp(data.title), " - ", SiteName>>

(***************************************************************************)
(* PartsLoader                                                             *)
(***************************************************************************)
StandardParts ==
    << [path |-> "parts/header.html", selector |-> "header-placeholder",
        position |-> "replace"],
       [path |-> "parts/sidebar.html", selector |-> "sidebar-placeholder",
        position |-> "replace"],
       [path |-> "parts/article-tabs.html",
        selector |-> "article-tabs-placeholder", position |-> "replace"],
       [path |-> "parts/footer.html", selector |-> "footer-placeholder",
        position |-> "replace"] >>

\* A loop that awaits each loadPart before it calls the next.
DispatchFirstOnly(ps) ==
    [i \in DOMAIN ps |-> IF i = 1 THEN "fetching" ELSE "new"]

\* parts.map(part => this.loadPart(...)): every call runs to its fetch.
Dispatch(ps) == [i \in DOMAIN ps |-> "fetching"]

\* Promise.all over the loadPart promises.
PromiseAll(pcs) ==
    IF \E i \in DOMAIN pcs : pcs[i] = "rejected" THEN "rejected"
    ELSE IF \A i \in DOMAIN pcs : pcs[i] \in Finished THEN "resolved"
    ELSE "waiting"

LoadPartsCall ==
    /\ loaderPc = "idle"
    /\ partPc' = Dispatch(parts)
    /\ loaderPc' = "waiting"
    /\ UNCHANGED <<doc, doc0, call, parts, initCalls, listeners, errLog, wrote, artVars>>

LoadParts == call = "parts" /\ LoadPartsCall

LoadStandardLayout == call = "layout" /\ LoadPartsCall

\* fetch resolves with an OK response.
FetchOk(i) ==
    /\ partPc[i] = "fetching"
    /\ partPc' = [partPc EXCEPT ![i] = "reading"]
    /\ UNCHANGED <<doc, doc0, call, parts, loaderPc, initCalls, listeners, errLog, wrote, artVars>>

\* fetch rejects (network) or resolves with a non-OK response (line 18).
FetchFail(i) ==
    /\ partPc[i] = "fetching"
    /\ partPc' = [partPc EXCEPT ![i] = Catch("thrown")]
    /\ errLog' = [errLog EXCEPT ![i] = "fetch"]
    /\ UNCHANGED <<doc, doc0, call, parts, loaderPc, initCalls, listeners, wrote, artVars>>

\* response.text() resolves: look the target up and splice.
TextOk(i) ==
    /\ partPc[i] = "reading"
    /\ partPc' = [partPc EXCEPT ![i] = Catch(ApplyOutcome(doc, parts[i]))]
    /\ doc' = ApplyDoc(doc, parts[i])
    /\ errLog' = IF ApplyOutcome(doc, parts[i]) = "thrown"
                 THEN [errLog EXCEPT ![i] = "dom"] ELSE errLog
    /\ wrote' = [wrote EXCEPT ![i] = {e \in Elems : doc'[e] # doc[e]}]
    /\ UNCHANGED <<doc0, call, parts, loaderPc, initCalls, listeners, artVars>>

\* response.text() rejects (the body could not be read).
TextFail(i) ==
    /\ partPc[i] = "reading"
    /\ partPc' = [partPc EXCEPT ![i] = Catch("thrown")]
    /\ errLog' = [errLog EXCEPT ![i] = "fetch"]
    /\ UNCHANGED <<doc, doc0, call, parts, loaderPc, initCalls, listeners, wrote, artVars>>

\* await Promise.all(promises) settles.
LoadPartsSettle ==
    /\ loaderPc = "waiting"
    /\ PromiseAll(partPc) # "waiting"
    /\ loaderPc' = PromiseAll(partPc)
    /\ UNCHANGED <<doc, doc0, call, parts, partPc, initCalls, listeners, errLog, wrote, artVars>>

\* loadStandardLayout resumes after loadParts and runs initSearchFunction.
InitSearchFunction ==
    /\ call = "layout"
    /\ loaderPc = "resolved"
    /\ loaderPc' = "done"
    /\ initCalls' = initCalls + 1
    /\ listeners' = IF querySelector(doc, "search-input") # "null"
                    THEN listeners + 1 ELSE listeners
    /\ UNCHANGED <<doc, doc0, call, parts, partPc, errLog, wrote, artVars>>

(***************************************************************************)
(* WikiArticleRenderer: loadArticle                                        *)
(***************************************************************************)
InitialTitle == <<"index.html">>

\* error.message of a failed fetch: a non-OK status (line 19), or the
\* network failure fetch itself rejects with.
FetchErrors == {"HTTP 404", "Failed to fetch"}

\* showError that writes nothing to the page.
showErrorNowhere(message) ==
    /\ artPc' = IF container = "null" THEN "rejected" ELSE "error"
    /\ UNCHANGED <<doc, title>>

\* showError, called from the catch block of loadArticle.  With no
\* container the assignment throws inside the catch block and the promise
\* loadArticle returned rejects.
showError(message) ==
    IF container = "null"
    THEN /\ artPc' = "rejected"
         /\ UNCHANGED <<doc, title>>
    ELSE /\ artPc' = "error"
         /\ doc' = [doc EXCEPT ![container] = showErrorMarkup(message)]
         /\ UNCHANGED title

\* The catch block of loadArticle: console.error, then showError.
loadArticleCatch(message) ==
    /\ artLog' = message
    /\ showError(message)

\* The DOMContentLoaded handler: new WikiArticleRenderer(), loadArticle(..)
\* up to its fetch.
DOMContentLoaded ==
    /\ artPc = "idle"
    /\ container' = querySelector(doc, "article-content")
    /\ artPc' = "fetching"
    /\ UNCHANGED <<doc, doc0, articleData, title, artLog, loaderVars>>

\* fetch resolves with an OK response.
ArticleFetchOk ==
    /\ artPc = "fetching"
    /\ artPc' = "parsing"
    /\ UNCHANGED <<doc, doc0, articleData, title, container, artLog, loaderVars>>

\* fetch rejects (network) or resolves with a non-OK response (line 19).
ArticleFetchFail ==
    /\ artPc = "fetching"
    /\ \E message \in FetchErrors : loadArticleCatch(message)
    /\ UNCHANGED <<doc0, articleData, container, loaderVars>>

\* response.json() resolves: renderArticle, then the page title.
ArticleJsonOk ==
    /\ artPc = "parsing"
    /\ IF renderArticleThrows(articleData) \/ container = "null"
       THEN loadArticleCatch("TypeError")
       ELSE /\ doc' = [doc EXCEPT ![container] = renderArticle(articleData)]
            /\ title' = PageTitle(articleData)
            /\ artPc' = "rendered"
            /\ UNCHANGED artLog
    /\ UNCHANGED <<doc0, articleData, container, loaderVars>>

\* response.json() rejects (the body is not JSON).
ArticleJsonFail ==
    /\ artPc = "parsing"
    /\ loadArticleCatch("SyntaxError")
    /\ UNCHANGED <<doc0, articleData, container, loaderVars>>

(***************************************************************************)
(* Inputs                                                                  *)
(***************************************************************************)
SeqsUpTo(S, n) == UNION {[1..k -> S] : k \in 0..n}

TitleOf(id) ==
    CASE id = "s1" -> "History" [] id = "s2" -> "Usage"
      [] id = "c1" -> "Early"   [] id = "c2" -> "Late"
      [] OTHER     -> "Detail"

NumberOf(id) ==
    CASE id = "s1" -> "1"   [] id = "s2" -> "2"
      [] id = "c1" -> "1.1" [] id = "c2" -> "1.2"
      [] OTHER     -> "1.2.1"

TocEntry(id, children) ==
    [id |-> id, number |-> NumberOf(id), title |-> TitleOf(id),
     children |-> children]

TocChildren ==
    {TocEntry("c1", None), TocEntry("c2", Some(<<TocEntry("g1", None)>>))}

TocItems ==
    {TocEntry(id, ch) :
        id \in {"s1", "s2"},
        ch \in {None} \cup {Some(s) : s \in SeqsUpTo(TocChildren, MaxChildren)}}

TocInputs == SeqsUpTo(TocItems, MaxTocLen)

TextLink(str) == [kind |-> "string", str |-> str, title |-> None, url |-> None]

ObjectLink(t, url) == [kind |-> "object", str |-> "", title |-> t, url |-> url]

Links ==
    {TextLink("Science"), TextLink("Computing"),
     ObjectLink(Some("Portal"), Some("https://example.org/portal")),
     ObjectLink(Some("Draft"), Some("")),
     ObjectLink(Some("Stub"), None)}

SectionFields ==
    {"content", "subsections", "table", "columns", "relatedLinks",
     "references", "externalLinks"}

\* The optional fields a generated section carries ("emptyContent": the
\* content field is there and holds the empty string).
FieldSets ==
    {{}} \cup {{f} : f \in SectionFields} \cup {{"emptyContent"}}
         \cup {SectionFields}

Section(id, F) ==
    [id |-> id, title |-> TitleOf(id),
     content |-> IF "content" \in F THEN Some("<p>body</p>")
                 ELSE IF "emptyContent" \in F THEN Some("") ELSE None,
     subsections |-> IF "subsections" \in F
                     THEN Some(<<[id |-> "c1", title |-> TitleOf("c1"),
                                  content |-> "<p>sub</p>"]>>)
                     ELSE None,
     table |-> IF "table" \in F
               THEN Some([caption |-> Some("Figures"),
                          headers |-> <<"Year", "Count">>,
                          rows |-> <<<<"2001", "7">>>>])
               ELSE None,
     columns |-> IF "columns" \in F
                 THEN Some(<<[title |-> "Pros", items |-> <<"fast">>]>>)
                 ELSE None,
     relatedLinks |-> IF "relatedLinks" \in F
                      THEN Some(<<TextLink("Related")>>) ELSE None,
     references |-> IF "references" \in F
                    THEN Some(<<"Smith 2001", "Jones 2005">>) ELSE None,
     externalLinks |-> IF "externalLinks" \in F
                       THEN Some(<<[title |-> "Site",
                                    url |-> "https://example.org"]>>)
                       ELSE None]

Sections == {Section(id, F) : id \in {"s1", "s2"}, F \in FieldSets}

Notices ==
    {[type |-> Some("warning"), icon |-> Some("(!)"), title |-> "Deprecated",
      text |-> "This page is retired."],
     [type |-> None, icon |-> None, title |-> "Note", text |-> "See also."]}

Infoboxes ==
    {[title |-> "Facts", image |-> Some("logo.png"),
      imageCaption |-> Some("The logo"),
      rows |-> Some(<<[label |-> "Founded", value |-> "2001"]>>)],
     [title |-> "Facts", image |-> None, imageCaption |-> None,
      rows |-> Some(<<[label |-> "Founded", value |-> "2001"]>>)],
     [title |-> "Facts", image |-> None, imageCaption |-> None,
      rows |-> None]}

Minimal ==
    [title |-> Some("Article"), intro |-> Some("An introduction."),
     notice |-> None, toc |-> Some(<<>>), infobox |-> None,
     sections |-> Some(<<>>), categories |-> Some(<<>>),
     lastModified |-> None]

Full ==
    [Minimal EXCEPT
        !.notice = Some(CHOOSE n \in Notices : Has(n.type)),
        !.toc = Some(<<TocEntry("s1", None)>>),
        !.infobox = Some(CHOOSE b \in Infoboxes : Has(b.image)),
        !.categories = Some(<<TextLink("Science")>>),
        !.lastModified = Some("2024-01-01")]

\* Records that vary the top-level fields, each absent or present.
TopInputs ==
    [title : {None, Some("Article")},
     intro : {None, Some("An introduction.")},
     notice : {None} \cup {Some(n) : n \in Notices},
     toc : {None, Some(<<>>), Some(<<TocEntry("s1", None)>>)},
     infobox : {None} \cup {Some(b) : b \in Infoboxes},
     sections : {None, Some(<<>>), Some(<<Section("s1", {})>>),
                 Some(<<Section("s1", {}), Section("s2", {})>>),
                 Some(<<Section("s2", {}), Section("s1", {})>>)},
     categories : {None, Some(<<>>), Some(<<TextLink("Science")>>)},
     lastModified : {None, Some(""), Some("2024-01-01")}]

SectionInputs ==
    {[base EXCEPT !.sections = Some(ss)] :
        base \in {Minimal, Full}, ss \in SeqsUpTo(Sections, MaxSections)}

TocRecords == {[Minimal EXCEPT !.toc = Some(t)] : t \in TocInputs}

CategoryInputs ==
    {[Minimal EXCEPT !.categories = Some(cs)] : cs \in SeqsUpTo(Links, MaxCats)}

ArticleInputs == TopInputs \cup SectionInputs \cup TocRecords \cup CategoryInputs

PageRecords == {Minimal, Full, [Full EXCEPT !.sections = None]}

PageOrder ==
    << "header-placeholder", "sidebar-placeholder",
       "article-tabs-placeholder", "article-content", "footer-placeholder" >>

\* A page holding the elements of `present`, in the order of PageOrder.
PageDoc(present) ==
    LET In(e) == e \in present IN
    [e \in Elems |->
        CASE e = Root              -> SelectSeq(PageOrder, In)
          [] e = "article-content" -> <<"article-loading">>
          [] OTHER                 -> <<>>]

Selectors == GenericElems \cup {"missing"}

PartSpecs(i) ==
    [path : {CASE i = 1 -> "p1" [] i = 2 -> "p2" [] OTHER -> "p3"},
     selector : Selectors, position : Positions \cup {""}]

PartsInputs ==
    UNION {{ps \in [1..n -> UNION {PartSpecs(i) : i \in 1..n}] :
                \A i \in 1..n : ps[i] \in PartSpecs(i)} : n \in 1..MaxParts}

(***************************************************************************)
(* Specifications                                                          *)
(***************************************************************************)
LoaderIdle ==
    /\ partPc = [i \in DOMAIN parts |-> "new"]
    /\ errLog = [i \in DOMAIN parts |-> "none"]
    /\ wrote = [i \in DOMAIN parts |-> {}]
    /\ loaderPc = "idle"
    /\ initCalls = 0
    /\ listeners = 0

ArticleIdle ==
    /\ artPc = "idle"
    /\ title = InitialTitle
    /\ container = "null"
    /\ artLog = "none"

\* A page that calls loadParts with arbitrary specs.
InitParts ==
    /\ doc = GenericDoc
    /\ doc0 = doc
    /\ call = "parts"
    /\ parts \in PartsInputs
    /\ LoaderIdle
    /\ articleData = Minimal
    /\ ArticleIdle

NextParts ==
    \/ LoadParts
    \/ \E i \in DOMAIN parts : FetchOk(i)
    \/ \E i \in DOMAIN parts : FetchFail(i)
    \/ \E i \in DOMAIN parts : TextOk(i)
    \/ \E i \in DOMAIN parts : TextFail(i)
    \/ LoadPartsSettle

SpecParts == InitParts /\ [][NextParts]_vars

\* A page that loads one article.
InitArticle ==
    /\ \E present \in {{}, {"article-content"}} : doc = PageDoc(present)
    /\ doc0 = doc
    /\ call = "none"
    /\ parts = <<>>
    /\ LoaderIdle
    /\ articleData \in ArticleInputs
    /\ ArticleIdle

NextArticle ==
    \/ DOMContentLoaded
    \/ ArticleFetchOk
    \/ ArticleFetchFail
    \/ ArticleJsonOk
    \/ ArticleJsonFail

SpecArticle == InitArticle /\ [][NextArticle]_vars

\* The site's page: the standard layout and the article load side by side.
Init ==
    /\ \E present \in SUBSET (LayoutElems \cup {"article-content"}) :
          doc = PageDoc(present)
    /\ doc0 = doc
    /\ call = "layout"
    /\ parts = StandardParts
    /\ LoaderIdle
    /\ articleData \in PageRecords
    /\ ArticleIdle

Next ==
    \/ LoadStandardLayout
    \/ \E i \in DOMAIN parts : FetchOk(i)
    \/ \E i \in DOMAIN parts : FetchFail(i)
    \/ \E i \in DOMAIN parts : TextOk(i)
    \/ \E i \in DOMAIN parts : TextFail(i)
    \/ LoadPartsSettle
    \/ InitSearchFunction
    \/ NextArticle

Spec == Init /\ [][Next]_vars

(***************************************************************************)
(* Properties of loadPart / loadParts                                      *)
(***************************************************************************)
TargetOf(i) == parts[i].selector

HtmlOf(i) == ResponseText(parts[i].path)

\* e is t or lies inside t, in document d.
RECURSIVE InsideN(_, _, _, _)
InsideN(d, e, t, n) ==
    \/ e = t
    \/ n > 0 /\ ParentOf(d, e) # "null" /\ InsideN(d, ParentOf(d, e), t, n - 1)

Inside(d, e, t) == InsideN(d, e, t, Cardinality(Elems))

\* The specs target elements of the loaded page, no two the same one.
DistinctExistingTargets ==
    /\ \A i \in DOMAIN parts : Attached(doc0, TargetOf(i))
    /\ \A i, j \in DOMAIN parts : i # j => TargetOf(i) # TargetOf(j)

\* No target lies inside another spec's target.
DisjointTargets ==
    \A i, j \in DOMAIN parts :
        i # j => ~Inside(doc0, TargetOf(i), TargetOf(j))

\* No spec asks for a sibling of the root element.
NoRootSibling ==
    \A i \in DOMAIN parts :
        ~(TargetOf(i) = Root /\ PositionOf(parts[i]) \in {"before", "after"})

AllFinished == \A i \in DOMAIN parts : partPc[i] \in Finished

\* s with the k chunks after position m taken out.
Without(s, m, k) == SubSeq(s, 1, m) \o SubSeq(s, m + k + 1, Len(s))

\* html sits in s right before (resp. right after) the chunk t.
RightBefore(s, html, t) ==
    \E k \in DOMAIN s :
        /\ s[k] = t
        /\ k > Len(html)
        /\ SubSeq(s, k - Len(html), k - 1) = html

RightAfter(s, html, t) ==
    \E k \in DOMAIN s :
        /\ s[k] = t
        /\ k + Len(html) <= Len(s)
        /\ SubSeq(s, k + 1, k + Len(html)) = html

\* In document d, spec i's target is in the page and holds (or, for
\* before/after, is next to) the text fetched for spec i.
HoldsOwnText(d, i) ==
    LET t == TargetOf(i)
        html == HtmlOf(i)
        pos == PositionOf(parts[i])
    IN  /\ Attached(d, t)
        /\ CASE pos = "replace" -> d[t] = html
             [] pos = "append"  -> d[t] = doc0[t] \o html
             [] pos = "prepend" -> d[t] = html \o doc0[t]
             [] pos = "before"  ->
                    d[t] = doc0[t] /\ RightBefore(d[ParentOf(d, t)], html, t)
             [] pos = "after"   ->
                    d[t] = doc0[t] /\ RightAfter(d[ParentOf(d, t)], html, t)

\* In document d, spec i's target is where and what it was at page load.
Untouched(d, i) ==
    LET t == TargetOf(i) IN
    /\ Attached(d, t)
    /\ ParentOf(d, t) = ParentOf(doc0, t)
    /\ d[t] = doc0[t]

ExactlyOneFetchFails ==
    /\ AllFinished
    /\ Cardinality({i \in DOMAIN parts : errLog[i] = "fetch"}) = 1
    /\ Cardinality(DOMAIN parts) > 1

\* What C1 says of a settled load in which one fetch failed.
OneFailureOutcome ==
    /\ \A i \in DOMAIN parts :
          IF errLog[i] = "fetch"
          THEN partPc[i] = "failed" /\ Untouched(doc, i)
          ELSE partPc[i] = "applied" /\ HoldsOwnText(doc, i)
    /\ loaderPc # "rejected"
    /\ loaderPc = "resolved" \/ ENABLED LoadPartsSettle
    /\ PromiseAll(partPc) = "resolved"

\* C1 as stated: over specs that target distinct existing elements, when
\* exactly one fetch fails every other target holds its own text, the
\* failing spec's target is as it was, and loadParts resolves.
C1_Original ==
    (DistinctExistingTargets /\ ExactlyOneFetchFails) => OneFailureOutcome

\* C1 (amended): the same, for specs whose targets are moreover disjoint
\* (none inside another) and none of which asks for a sibling of the root.
C1_OneFailureIsolated ==
    (DistinctExistingTargets /\ DisjointTargets /\ NoRootSibling
        /\ ExactlyOneFetchFails)
    => OneFailureOutcome

C1_Witness ==
    /\ DistinctExistingTargets /\ DisjointTargets /\ NoRootSibling
    /\ ExactlyOneFetchFails
    /\ loaderPc = "resolved"
    /\ \E i \in DOMAIN parts :
          partPc[i] = "applied" /\ PositionOf(parts[i]) = "after"

\* C3: a successful insertion 'before' ('after') puts the fetched text
\* right before (right after) the target in its parent, and changes
\* neither the target's contents nor anything else in the document.
C3_Step ==
    \A i \in DOMAIN parts :
        (/\ partPc[i] = "reading"
         /\ partPc'[i] = "applied"
         /\ PositionOf(parts[i]) \in {"before", "after"})
        =>
        LET t == TargetOf(i)
            html == HtmlOf(i)
            p == ParentOf(doc, t)
            k == IndexOf(doc'[p], t)
        IN  /\ p # "null"
            /\ ParentOf(doc', t) = p
            /\ doc'[t] = doc[t]
            /\ \A e \in Elems \ {p} : doc'[e] = doc[e]
            /\ IF PositionOf(parts[i]) = "before"
               THEN /\ RightBefore(doc'[p], html, t)
                    /\ Without(doc'[p], k - Len(html) - 1, Len(html)) = doc[p]
               ELSE /\ RightAfter(doc'[p], html, t)
                    /\ Without(doc'[p], k, Len(html)) = doc[p]

C3_SiblingInsertion == [][C3_Step]_vars

C3_Witness ==
    /\ \E i \in DOMAIN parts :
          partPc[i] = "applied" /\ PositionOf(parts[i]) = "before"
    /\ \E i \in DOMAIN parts :
          partPc[i] = "applied" /\ PositionOf(parts[i]) = "after"

\* The page: what each element still in the document holds.
Visible(d) ==
    [e \in Elems |-> IF Attached(d, e) THEN d[e] ELSE <<"(detached)">>]

\* The specs whose fetch succeeded, applied one after the other in the
\* order of the list, from spec i on.
RECURSIVE AppliedInListOrder(_, _)
AppliedInListOrder(d, i) ==
    IF i > Len(parts) THEN d
    ELSE AppliedInListOrder(
            IF errLog[i] = "fetch" THEN d ELSE ApplyDoc(d, parts[i]), i + 1)

\* Whatever order the fetches completed in, the page ends up as if the
\* specs had been applied in list order.
OrderIndependent ==
    (DistinctExistingTargets /\ AllFinished)
    => Visible(doc) = Visible(AppliedInListOrder(doc0, 1))

Pending(i) == partPc[i] \in {"fetching", "reading"}

\* A pending spec holds back loadParts' completion and nothing else: every
\* other pending spec can still take its next step.
PendingDelaysOnlyCompletion ==
    /\ (\E i \in DOMAIN parts : Pending(i)) => loaderPc \in {"idle", "waiting"}
    /\ \A j \in DOMAIN parts :
          /\ partPc[j] = "fetching" => ENABLED FetchOk(j)
          /\ partPc[j] = "reading" => ENABLED TextOk(j)

\* The one element whose contents spec i's splice rewrites.
WrittenElement(d, i) ==
    IF PositionOf(parts[i]) \in {"before", "after"}
    THEN ParentOf(d, TargetOf(i)) ELSE TargetOf(i)

\* Spec i's splice changed no element but those of W(i), and a spec that
\* was not applied changed none.
WroteOnly(W(_)) ==
    \A i \in DOMAIN parts :
        /\ wrote[i] \subseteq W(i)
        /\ partPc[i] # "applied" => wrote[i] = {}

OwnTarget(i) == {TargetOf(i)}

OwnTargetOrParent(i) == {WrittenElement(doc0, i)}

\* C10 as stated: for distinct targets the final page does not depend on
\* the order of completion, each load writes only to its own target, and a
\* pending fetch holds back only loadParts' completion.
C10_Original ==
    /\ OrderIndependent
    /\ WroteOnly(OwnTarget)
    /\ PendingDelaysOnlyCompletion

\* C10 (amended): the same, except that a load with position 'before' or
\* 'after' writes to the child list of its target's parent instead of
\* its target.
C10_NoInterference ==
    /\ OrderIndependent
    /\ WroteOnly(OwnTargetOrParent)
    /\ PendingDelaysOnlyCompletion

C10_Witness ==
    /\ DistinctExistingTargets
    /\ Len(parts) > 1
    /\ partPc[1] = "fetching"
    /\ partPc[2] = "applied"
    /\ PositionOf(parts[2]) = "before"
    /\ Inside(doc0, TargetOf(2), TargetOf(1))
    /\ loaderPc = "waiting"

(***************************************************************************)
(* Properties of the page load                                             *)
(***************************************************************************)
\* C2: once loadParts waits, every spec's fetch has been dispatched; it
\* completes only when every spec has finished; and initSearchFunction
\* runs once, right after that completion and never before it.
C2_FanOutFanIn ==
    /\ loaderPc # "idle" => \A i \in DOMAIN parts : partPc[i] # "new"
    /\ loaderPc = "idle" => \A i \in DOMAIN parts : partPc[i] = "new"
    /\ loaderPc \in {"resolved", "done"} => AllFinished
    /\ (call = "layout" /\ loaderPc = "resolved") => ENABLED InitSearchFunction
    /\ initCalls = (IF loaderPc = "done" THEN 1 ELSE 0)
    /\ initCalls > 0 => (Len(parts) = 4 /\ AllFinished)
    /\ ~ENABLED InitSearchFunction \/ loaderPc = "resolved"

C2_Witness ==
    /\ initCalls = 1
    /\ \E i, j, k \in DOMAIN parts :
          partPc[i] = "applied" /\ partPc[j] = "skipped" /\ partPc[k] = "failed"

\* The article's fetch failed: what loadArticle caught is a fetch error.
ArticleFetchFailed == artLog \in FetchErrors

\* C4: a failed article fetch leaves the warning box in the article
\* container and the page title as it was; a failed fragment fetch leaves
\* its spec failed and the document as it was: an element's contents
\* differ from the loaded page's only where a fragment was applied or the
\* article load wrote.
C4_FailureSurfacedForArticleOnly ==
    /\ (ArticleFetchFailed /\ container # "null")
       => /\ artPc = "error"
          /\ doc[container] = showErrorMarkup(artLog)
          /\ title = InitialTitle
    /\ \A i \in DOMAIN parts :
          errLog[i] = "fetch"
          => partPc[i] = "failed" /\ wrote[i] = {}
             /\ doc[TargetOf(i)] = doc0[TargetOf(i)]
    /\ \A e \in Elems :
          doc[e] # doc0[e]
          => \/ \E i \in DOMAIN parts : partPc[i] = "applied" /\ TargetOf(i) = e
             \/ e = container /\ artPc \in {"rendered", "error"}
    /\ \A e \in Elems \ {container} :
          \A m \in FetchErrors \cup {"TypeError", "SyntaxError"} :
              doc[e] # showErrorMarkup(m)

C4_Witness ==
    /\ ArticleFetchFailed
    /\ container # "null"
    /\ loaderPc = "done"
    /\ \E i, j \in DOMAIN parts : errLog[i] = "fetch" /\ partPc[j] = "applied"

(***************************************************************************)
(* Properties of the renderer                                              *)
(***************************************************************************)
\* The article container's contents once loadArticle has rendered.
Rendered == artPc = "rendered"

Out == doc["article-content"]

NoticeOpen == "<div class='article-notice "

TitleOpen == "<h1 class='article-title'>"

IntroOpen == "<div class='article-intro'><p>"

TocOpen ==
    "<div class='toc'><div class='toc-title'>...</div><ul id='toc-list'>"

InfoboxOpen == "<div class='infobox'><table><tr class='infobox-header'><th>"

SectionOpen == "<section id='"

CategoriesOpen ==
    "<div class='categories'><span class='categories-title'>...</span><ul>"

LastModifiedOpen == "<div class='last-modified'>"

ListClose == "</ul></div>"

TocLi == "<li><a href='#"

HasChunk(s, c) == \E k \in DOMAIN s : s[k] = c

Count(s, c) == Cardinality({k \in DOMAIN s : s[k] = c})

\* The indices of s, in order, at which P holds.
Where(s, P(_)) == SelectSeq([k \in 1..Len(s) |-> k], P)

\* The part of s from the first chunk `open` to the first ListClose
\* after it.
ListSegment(s, open) ==
    LET a == IndexOf(s, open)
        b == CHOOSE k \in a..Len(s) :
                /\ s[k] = ListClose
                /\ \A m \in a..(k - 1) : s[m] # ListClose
    IN  SubSeq(s, a, b)

\* The article loaded and parsed, and loadArticle has settled on a page
\* that has the article container.
Settled ==
    /\ container # "null"
    /\ artPc \in {"rendered", "error"}
    /\ artLog \notin FetchErrors \cup {"SyntaxError"}

ShowsWarningOnly ==
    /\ artPc = "error"
    /\ artLog = "TypeError"
    /\ Out = showErrorMarkup("TypeError")
    /\ title = InitialTitle

NoArticleMarkup == ~HasChunk(Out, TitleOpen) /\ ~HasChunk(Out, CategoriesOpen)

RequiredAbsent(fields) == \E f \in fields : ~Has(articleData[f])

\* C5 as stated: with any of title, intro, toc, sections, categories
\* absent the render fails as a whole: no article markup ever reaches the
\* container, and loadArticle shows the warning and leaves the page title.
C5_Original ==
    RequiredAbsent({"title", "intro", "toc", "sections", "categories"})
    => /\ NoArticleMarkup
       /\ Settled => ShowsWarningOnly

\* C5 (amended): that holds when toc, sections or categories is absent.
\* A record that lacks only title or intro renders, the text "undefined"
\* standing where the field would, in the heading and in the page title.
C5_MissingField ==
    /\ RequiredAbsent({"toc", "sections", "categories"})
       => /\ NoArticleMarkup
          /\ Settled => ShowsWarningOnly
    /\ (/\ Settled
        /\ ~RequiredAbsent({"toc", "sections", "categories"})
        /\ ~(Has(articleData.infobox) /\ ~Has(Val(articleData.infobox).rows)))
       => /\ Rendered
          /\ Out[IndexOf(Out, TitleOpen) + 1]
                = (IF Has(articleData.title) THEN Val(articleData.title)
                   ELSE "undefined")
          /\ Out[IndexOf(Out, IntroOpen) + 1]
                = (IF Has(articleData.intro) THEN Val(articleData.intro)
                   ELSE "undefined")
          /\ title[1] = Out[IndexOf(Out, TitleOpen) + 1]

C5_Witness ==
    /\ Settled
    /\ ~Has(articleData.sections)
    /\ Has(articleData.title) /\ Has(articleData.toc)
    /\ Has(articleData.categories)
    /\ artPc = "error"

\* A record with every required field and nothing optional in it, at the
\* top or in any section.
OptionalSectionFields ==
    {"content", "subsections", "table", "columns", "relatedLinks",
     "references", "externalLinks"}

MinimalRecord ==
    /\ Has(articleData.title)
    /\ Has(articleData.intro)
    /\ ~Has(articleData.notice)
    /\ ~Has(articleData.infobox)
    /\ ~Has(articleData.lastModified)
    /\ \A i \in DOMAIN Val(articleData.sections) :
          \A f \in OptionalSectionFields :
              ~Has(Val(articleData.sections)[i][f])

HeadingBlock(section) ==
    << SectionOpen, section.id, "'>",
       "<h2><span class='section-edit'>...</span>", section.title, "</h2>",
       "</section>" >>

MinimalOutput ==
    << TitleOpen, Val(articleData.title), "</h1>",
       IntroOpen, Val(articleData.intro), "</p></div>" >>
    \o renderToc(articleData.toc)
    \o Concat([i \in DOMAIN Val(articleData.sections) |->
                  HeadingBlock(Val(articleData.sections)[i])])
    \o renderCategories(articleData.categories)

\* How many sections carry the optional field f.
SectionsWith(f) ==
    Cardinality({i \in DOMAIN Val(articleData.sections) :
                    Has(Val(articleData.sections)[i][f])})

TocEntriesWithChildren ==
    Cardinality({i \in DOMAIN Val(articleData.toc) :
                    /\ Has(Val(articleData.toc)[i].children)
                    /\ Val(Val(articleData.toc)[i].children) # <<>>})

\* The section-level optional blocks are there exactly for the sections
\* that carry the field.
SectionBlocksIffPresent ==
    /\ Count(Out, "<h3 id='") = SectionsWith("subsections")
    /\ Count(Out, "<table class='wikitable'>") = SectionsWith("table")
    /\ Count(Out, "<div class='columns'>") = SectionsWith("columns")
    /\ Count(Out, "<div class='related-links'><ul>")
          = SectionsWith("relatedLinks")
    /\ Count(Out, "<div class='references'><ol>") = SectionsWith("references")
    /\ Count(Out, "<ul>") = SectionsWith("externalLinks") + TocEntriesWithChildren

MinimalRendersBare ==
    /\ HasChunk(Out, TocOpen)
    /\ Val(articleData.toc) = <<>>
       => ListSegment(Out, TocOpen) = <<TocOpen, ListClose>>
    /\ MinimalRecord
       => /\ Out = MinimalOutput
          /\ ~HasChunk(Out, NoticeOpen)
          /\ ~HasChunk(Out, InfoboxOpen)
          /\ ~HasChunk(Out, LastModifiedOpen)
          /\ Count(Out, SectionOpen) = Len(Val(articleData.sections))
          /\ Count(Out, "</section>") = Len(Val(articleData.sections))

\* C6 as stated: a minimal record renders as title, intro, toc container,
\* one heading block per section and categories, nothing else; and each
\* optional block is in the output if and only if its field is present.
C6_Original ==
    Rendered
    => /\ MinimalRendersBare
       /\ HasChunk(Out, NoticeOpen) <=> Has(articleData.notice)
       /\ HasChunk(Out, InfoboxOpen) <=> Has(articleData.infobox)
       /\ HasChunk(Out, LastModifiedOpen) <=> Has(articleData.lastModified)
       /\ SectionBlocksIffPresent

\* C6 (amended): the same, except that the last-modified line is in the
\* output if and only if lastModified is present and not the empty string.
C6_OptionalBlocks ==
    Rendered
    => /\ MinimalRendersBare
       /\ HasChunk(Out, NoticeOpen) <=> Has(articleData.notice)
       /\ HasChunk(Out, InfoboxOpen) <=> Has(articleData.infobox)
       /\ HasChunk(Out, LastModifiedOpen)
             <=> (Has(articleData.lastModified)
                  /\ Val(articleData.lastModified) # "")
       /\ SectionBlocksIffPresent

C6_Witness ==
    /\ Rendered
    /\ MinimalRecord
    /\ Len(Val(articleData.sections)) = 2
    /\ Val(articleData.toc) = <<>>

\* How deep in <ul> lists the chunk after position k of s lies.
UlDelta(c) ==
    CASE c = TocOpen -> 1
      [] c = "<ul>"  -> 1
      [] c = "</ul>" -> 0 - 1
      [] c = ListClose -> 0 - 1
      [] OTHER -> 0

RECURSIVE DepthAfter(_, _)
DepthAfter(s, k) ==
    IF k = 0 THEN 0 ELSE DepthAfter(s, k - 1) + UlDelta(s[k])

\* The positions of the list items of s at nesting level n, in order.
ItemsAt(s, n) ==
    LET AtLevel(k) == s[k] = TocLi /\ DepthAfter(s, k) = n
    IN  Where(s, AtLevel)

\* The ids the list items at positions idx of s link to.
IdsAt(s, idx) == [j \in DOMAIN idx |-> s[idx[j] + 1]]

IdsOf(entries) == [j \in DOMAIN entries |-> entries[j].id]

ChildrenOf(entry) ==
    IF Has(entry.children) THEN Val(entry.children) ELSE <<>>

\* C7: the toc has one outer item per entry, in order; under an entry
\* with children one nested list with one item per child, in order; and
\* no list item at a third level, whatever the children carry.
C7_TocTwoLevels ==
    Rendered =>
    LET toc == Val(articleData.toc)
        seg == ListSegment(Out, TocOpen)
        outer == ItemsAt(seg, 1)
        SpanEnd(j) == IF j < Len(outer) THEN outer[j + 1] - 1 ELSE Len(seg)
        Span(j) == SubSeq(seg, outer[j], SpanEnd(j))
        Nested(j) ==
            LET sp == Span(j)
                Second(k) == sp[k] = TocLi /\ DepthAfter(seg, outer[j] + k - 1) = 2
            IN  IdsAt(sp, Where(sp, Second))
    IN  /\ IdsAt(seg, outer) = IdsOf(toc)
        /\ \A j \in DOMAIN toc :
              /\ Nested(j) = IdsOf(ChildrenOf(toc[j]))
              /\ Count(Span(j), "<ul>")
                    = (IF ChildrenOf(toc[j]) # <<>> THEN 1 ELSE 0)
        /\ \A k \in DOMAIN seg : DepthAfter(seg, k) \in {0, 1, 2}
        /\ \A k \in DOMAIN seg : seg[k] = TocLi => DepthAfter(seg, k) \in {1, 2}
        /\ Count(seg, TocLi)
              = Len(toc) + Len(Concat([j \in DOMAIN toc |-> ChildrenOf(toc[j])]))

C7_Witness ==
    /\ Rendered
    /\ Len(Val(articleData.toc)) = 2
    /\ \E j \in DOMAIN Val(articleData.toc) :
          LET cs == ChildrenOf(Val(articleData.toc)[j]) IN
          /\ Len(cs) = 2
          /\ \E c \in DOMAIN cs : ChildrenOf(cs[c]) # <<>>

\* The place of a block in renderArticle's order, 0 for any other chunk.
BlockRank(c) ==
    CASE c = NoticeOpen -> 1
      [] c = TitleOpen -> 2
      [] c = IntroOpen -> 3
      [] c = TocOpen -> 4
      [] c = InfoboxOpen -> 5
      [] c = SectionOpen -> 6
      [] c = CategoriesOpen -> 7
      [] c = LastModifiedOpen -> 8
      [] OTHER -> 0

\* C8: the blocks come in the order notice, title, intro, toc, infobox,
\* sections, categories, last-modified, each of them at most once but
\* the sections, which come one per element of the sections array and
\* in its order.
C8_BlockOrder ==
    Rendered =>
    LET IsBlock(k) == BlockRank(Out[k]) # 0
        blocks == Where(Out, IsBlock)
        IsSection(k) == Out[k] = SectionOpen
        secs == Where(Out, IsSection)
    IN  /\ \A i, j \in DOMAIN blocks :
              i < j => /\ BlockRank(Out[blocks[i]]) <= BlockRank(Out[blocks[j]])
                       /\ BlockRank(Out[blocks[i]]) = BlockRank(Out[blocks[j]])
                             => Out[blocks[i]] = SectionOpen
        /\ \A r \in {2, 3, 4, 7} :
              \E i \in DOMAIN blocks : BlockRank(Out[blocks[i]]) = r
        /\ IdsAt(Out, secs) = IdsOf(Val(articleData.sections))

C8_Witness ==
    /\ Rendered
    /\ Has(articleData.notice) /\ Has(articleData.infobox)
    /\ TruthyText(articleData.lastModified)
    /\ IdsOf(Val(articleData.sections)) = <<"s2", "s1">>

\* What C9 says a category renders as.
PlainEntry(text) == <<"<li><a href='#'>", text, "</a></li>">>

LinkedEntry(url, text) ==
    <<"<li><a href='", url, "' target='_blank'>", text, "</a></li>">>

CategoryList(Entry(_)) ==
    LET cats == Val(articleData.categories) IN
    ListSegment(Out, CategoriesOpen)
        = <<CategoriesOpen>> \o Concat([i \in DOMAIN cats |-> Entry(cats[i])])
            \o <<ListClose>>

\* Every record among the categories has a title and a url.
TitleUrlRecords ==
    \A i \in DOMAIN Val(articleData.categories) :
        LET cat == Val(articleData.categories)[i] IN
        cat.kind = "object" => Has(cat.title) /\ Has(cat.url)

EntryAsStated(cat) ==
    IF cat.kind = "object"
    THEN LinkedEntry(Val(cat.url), Val(cat.title))
    ELSE PlainEntry(cat.str)

EntryAsRendered(cat) ==
    IF cat.kind = "object" /\ Val(cat.url) # ""
    THEN LinkedEntry(Val(cat.url), Val(cat.title))
    ELSE IF cat.kind = "object" THEN PlainEntry("[object Object]")
    ELSE PlainEntry(cat.str)

\* C9 as stated: one entry per category, in order; a plain string links
\* to "#" under its own text, a {title, url} record links to its url
\* under its title, with target="_blank".
C9_Original == (Rendered /\ TitleUrlRecords) => CategoryList(EntryAsStated)

\* C9 (amended): the same for a record whose url is not the empty string;
\* a record whose url is the empty string is rendered like a plain entry,
\* linking to "#" under the text "[object Object]".
C9_Categories == (Rendered /\ TitleUrlRecords) => CategoryList(EntryAsRendered)

C9_Witness ==
    /\ Rendered
    /\ TitleUrlRecords
    /\ \E i, j \in DOMAIN Val(articleData.categories) :
          /\ i < j
          /\ Val(articleData.categories)[i].kind = "string"
          /\ IsLinked(Val(articleData.categories)[j])

====
